---- MODULE Spec2Model ----
(***************************************************************************)
(* The insert-citation dialog of the visual editor                         *)
(* (insert_citation_picker.ts): showInsertCitationDialog and the           *)
(* InsertCitationPanel component it renders.                               *)
(*                                                                         *)
(* Optional values (undefined / null in the source) are sequences of       *)
(* length at most one: None is <<>>, Some(x) is <<x>>.  Citation entries   *)
(* are objects: a list holds references ("e1", ...) and the mutable id     *)
(* field of every object lives in citationId, so that object identity      *)
(* (Array.includes) and identifier equality (id ===) stay distinct.        *)
(* selectedIndex is 0-based as in the source, -1 meaning no selection.     *)
(***************************************************************************)
EXTENDS Integers, Sequences, FiniteSets, TLC

VARIABLES
  bibliographyFiles,            \* what bibliographyManager.bibliographyFiles(doc, ui) reports
  loaded,                       \* bibliographyManager.load(ui, doc) has resolved
  updatedConfiguration,         \* the slot the load's continuation fills
  insertCitationConfiguration,  \* React state: the panel's configuration
  selectedPanelProvider,        \* React state: key of the active provider
  insertCitationPanelState,     \* React state: the dialog state record
  citationId,                   \* heap: the id field of every entry object
  searches,                     \* explicit searches whose promise is pending
  result,                       \* showInsertCitationDialog's local `result`
  phase,                        \* "rendered" | "open" | "confirmed" | "cancelled"
  returned,                     \* the value showInsertCitationDialog resolves to
  lastTypeAhead,                \* the typeAheadSearch call made by the last step, if any
  messageShown,                 \* the dialog has shown the validation message
  events,                       \* user events handled so far
  polling,                      \* the interval timer the effect started is running
  configurationApplied,         \* a poll has handed a configuration to the panel
  lastSearch,                   \* what the last step did to an explicit search, if anything
  routerProviders,              \* panelForNode applied to arbitrary provider lists:
  routerNode,                   \*   its arguments
  routerPanel,                  \*   and what it returned
  registryFiles,                \* providersForBibliography applied to arbitrary file lists:
  registryProviders,            \*   the manager's files and what it returned
  lookupNodes,                  \* nodeForKey run frame by frame on arbitrary arguments:
  lookupKey,                    \*   its arguments,
  lookupDepth,                  \*   the frames of nodeForKey on the call stack
  lookupResult                  \*   and how the outermost call ended

vars == <<bibliographyFiles, loaded, updatedConfiguration, insertCitationConfiguration,
          selectedPanelProvider, insertCitationPanelState, citationId, searches,
          result, phase, returned, lastTypeAhead, messageShown, events,
          polling, configurationApplied, lastSearch,
          routerProviders, routerNode, routerPanel, registryFiles, registryProviders,
          lookupNodes, lookupKey, lookupDepth, lookupResult>>

dialogVars == <<bibliographyFiles, loaded, updatedConfiguration, insertCitationConfiguration,
                selectedPanelProvider, insertCitationPanelState, citationId, searches,
                result, phase, returned, lastTypeAhead, messageShown, events,
                polling, configurationApplied, lastSearch>>

lookupVars == <<lookupNodes, lookupKey, lookupDepth, lookupResult>>

pureVars == <<routerProviders, routerNode, routerPanel, registryFiles, registryProviders,
              lookupNodes, lookupKey, lookupDepth, lookupResult>>

None == <<>>
Some(x) == <<x>>

(***************************************************************************)
(* Bounds of the model.                                                    *)
(***************************************************************************)
\* explicit searches in flight at once
MaxInFlight == 2
\* user events (keystrokes, clicks) handled by one dialog
MaxEvents == 3
\* frames the call stack holds before the engine throws a RangeError
MaxStack == 3

(***************************************************************************)
(* The environment: bibliography files, entry objects, provider trees.     *)
(***************************************************************************)
WritableFile == [displayPath |-> "refs.bib", writable |-> TRUE]
ReadOnlyFile == [displayPath |-> "shared.bib", writable |-> FALSE]

\* the file lists the bibliography manager may report, before and after its load
FileLists == { <<>>, <<ReadOnlyFile, WritableFile>> }

\* names the user may type for the bibliography file to create
CreateFileNames == { "references.bib", "notes.bib" }

kLocalBiliographyProviderKey == "local"

\* entry objects: a1 and a2 are two objects a provider built for the same source "a"
Refs == { "a1", "a2", "b1", "c1" }
InitialId == [ r \in Refs |-> CASE r \in {"a1", "a2"} -> "a" [] r = "b1" -> "b" [] OTHER -> "c" ]
\* b1 comes from a bibliography source that is not the local one, c1 from a remote lookup
ProviderKeyOf ==
  [ r \in Refs |-> CASE r = "b1" -> "zotero" [] r = "c1" -> "doi" [] OTHER -> kLocalBiliographyProviderKey ]

\* texts the user may type into an editable tag
EditTexts == { "a", "c" }
SearchTerms == { "q" }

Leaf(k) == [key |-> k, children |-> <<>>]
BibliographyTree == [key |-> "bibliography", children |-> << Leaf("bibliography/library") >>]
DoiTree == Leaf("doi")
CrossrefTree == Leaf("crossref")


\* a provider rooted above the others; only the panelForNode check uses it
AllTree == [key |-> "all", children |-> << BibliographyTree, DoiTree >>]

\* CitationSourcePanelProvider.treeNode(), by provider key
treeNode(panel) ==
  CASE panel = "bibliography" -> BibliographyTree
    [] panel = "doi" -> DoiTree
    [] panel = "crossref" -> CrossrefTree
    [] OTHER -> AllTree

\* the entry lists a provider may hand back (the bibliography keeps its sources in order)
ProviderLists(panel) ==
  IF panel = "bibliography"
    THEN { <<>>, <<"a1">>, <<"a2", "b1">> }
    ELSE { <<>>, <<"c1">> }

\* CitationSourcePanelProvider.typeAheadSearch(term, node): null or a list
typeAheadSearch(panel, term, node) == { None } \cup { Some(l) : l \in ProviderLists(panel) }

\* what the promise of CitationSourcePanelProvider.search(term, node) may resolve to
search(panel, term, node) == { None } \cup { Some(l) : l \in ProviderLists(panel) }

\* BibliographyManager.writableBibliographyFiles(doc, ui)
writableBibliographyFiles(files) == SelectSeq(files, LAMBDA f : f.writable)

\* bibliographyFileForPath(path, ui): a proposed new file
bibliographyFileForPath(path) == [displayPath |-> path, writable |-> TRUE]

(***************************************************************************)
(* showInsertCitationDialog: provider registry, configuration, validation. *)
(***************************************************************************)
\* variant: any bibliography file, writable or not, enables the remote providers
providersForAnyFile(files) ==
  IF Len(files) > 0 THEN << "bibliography", "doi", "crossref" >> ELSE << "bibliography" >>

providersForBibliography(files) ==
  LET isWritable == Len(writableBibliographyFiles(files)) > 0
  IN  IF isWritable THEN << "bibliography", "doi", "crossref" >> ELSE << "bibliography" >>

\* the { providers, bibliographyFiles } object built at lines 96-99 and 107-110
configuration(files) ==
  [providers |-> providersForBibliography(files), bibliographyFiles |-> files]

\* variant: the stream hands the replacement out once
streamOnce == IF configurationApplied THEN None ELSE updatedConfiguration

\* configurationStream.stream()
stream == updatedConfiguration

\* variant: a validation that lets every result through
validationAcceptsAll(res) == FALSE

\* the validation callback: a message (TRUE) rejects the confirm
validation(res) == res # None /\ Len(res[1].citations) = 0

\* ui.dialogs.htmlDialog: confirm() closes the dialog unless the validation has a message
htmlDialogCloses(res) == ~ validation(res)

\* the value showInsertCitationDialog resolves to
dialogReturn(performInsert, res) == IF performInsert /\ res # None THEN res ELSE None

(***************************************************************************)
(* InsertCitationPanel: pure helpers.                                      *)
(***************************************************************************)
RECURSIVE containsChild(_, _)
containsChild(key, node) ==
  \/ node.key = key
  \/ \E i \in 1..Len(node.children) : containsChild(key, node.children[i])

\* Array.find visits the elements in order: the first of the positions that pass its test
First(hits) == CHOOSE i \in hits : \A j \in hits : i <= j

\* variant: the last matching provider instead of the first
panelForNodeLastMatch(sourcePanels, node) ==
  LET hits == IF node = None THEN {}
              ELSE { i \in 1..Len(sourcePanels) :
                       containsChild(node[1].key, treeNode(sourcePanels[i])) }
  IN  IF hits = {} THEN None
      ELSE Some(sourcePanels[CHOOSE i \in hits : \A j \in hits : j <= i])

panelForNode(sourcePanels, node) ==
  IF node # None
    THEN LET hits == { i \in 1..Len(sourcePanels) :
                         containsChild(node[1].key, treeNode(sourcePanels[i])) }
         IN  IF hits = {} THEN None ELSE Some(sourcePanels[First(hits)])
    ELSE None

treeSourceData(config) == [i \in 1..Len(config.providers) |-> treeNode(config.providers[i])]

\* nodeForKey as written: it answers for no key and for the key of the first node,
\* and calls itself with the same arguments otherwise
RECURSIVE nodeForKey(_, _)
nodeForKey(nodes, key) ==
  IF key = None THEN None
  ELSE IF Len(nodes) = 0 THEN None
  ELSE IF nodes[1].key = key[1] THEN Some(nodes[1])
  ELSE nodeForKey(nodes, key)

\* { ...insertCitationPanelState, ...updatedState }
updateState(state, updatedState) == updatedState @@ state

includes(seq, x) == \E i \in 1..Len(seq) : seq[i] = x

\* variant: the selected entry is put in front of the pending ones
mergeCitationsSelectedFirst(toAdd, selected) ==
  IF selected = None THEN toAdd
  ELSE IF citationId[selected[1]] \in { citationId[toAdd[i]] : i \in 1..Len(toAdd) }
    THEN toAdd
    ELSE << selected[1] >> \o toAdd

mergeCitations(toAdd, selected) ==
  IF selected = None THEN toAdd
  ELSE IF includes([i \in 1..Len(toAdd) |-> citationId[toAdd[i]]], citationId[selected[1]])
    THEN toAdd
    ELSE toAdd \o << selected[1] >>

displayedCitations(state) ==
  SelectSeq(state.citations, LAMBDA citation : ~ includes(state.citationsToAdd, citation))

selectedCitation(state) ==
  IF state.selectedIndex > -1 /\ state.selectedIndex + 1 <= Len(displayedCitations(state))
    THEN Some(displayedCitations(state)[state.selectedIndex + 1])
    ELSE None

mergedCitationsToAdd(state) == mergeCitations(state.citationsToAdd, selectedCitation(state))

\* variant: the file to create comes first
resultBibliographyCreateFirst(state) == state.createBibliographyFile

\* existingBibliographyFile || createBibliographyFile
resultBibliography(state) ==
  IF state.existingBibliographyFile # None
    THEN state.existingBibliographyFile[1]
    ELSE state.createBibliographyFile

\* every node of a list of trees
RECURSIVE nodesOf(_)
nodesOf(node) == { node } \cup UNION { nodesOf(node.children[i]) : i \in 1..Len(node.children) }


(***************************************************************************)
(* The state after showInsertCitationDialog has rendered the panel.        *)
(* initiallySelectedNodeKey is absent or the key of the first tree: with   *)
(* any other key nodeForKey does not return and the panel never renders.   *)
(***************************************************************************)
InitialKeys == { None, Some("bibliography") }

InitDialog ==
  /\ bibliographyFiles \in FileLists
  /\ loaded = FALSE
  /\ updatedConfiguration = None
  /\ insertCitationConfiguration = configuration(bibliographyFiles)
  /\ \E initiallySelectedNodeKey \in InitialKeys :
       LET current == configuration(bibliographyFiles)
           defaultNode == nodeForKey(treeSourceData(current), initiallySelectedNodeKey)
           suggested == panelForNode(current.providers, defaultNode)
           provider == IF suggested # None THEN suggested[1] ELSE current.providers[1]
       IN  /\ selectedPanelProvider = provider
           /\ insertCitationPanelState =
                [ citations |-> <<>>,
                  citationsToAdd |-> <<>>,
                  selectedIndex |-> -1,
                  searchTerm |-> "",
                  selectedNode |-> IF defaultNode # None THEN defaultNode[1] ELSE treeNode(provider),
                  status |-> "default",
                  existingBibliographyFile |->
                    IF Len(current.bibliographyFiles) > 0
                      THEN Some(current.bibliographyFiles[1]) ELSE None,
                  createBibliographyFile |-> bibliographyFileForPath("references.bib") ]
  /\ citationId = InitialId
  /\ searches = <<>>
  /\ result = None
  /\ phase = "rendered"
  /\ returned = None
  /\ lastTypeAhead = None
  /\ messageShown = FALSE
  /\ events = 0
  /\ polling = FALSE
  /\ configurationApplied = FALSE
  /\ lastSearch = None

NotCalled == [called |-> FALSE]
Called(value) == [called |-> TRUE, value |-> value]

\* nodeForKey has not been called
LookupIdle ==
  /\ lookupNodes = <<>>
  /\ lookupKey = None
  /\ lookupDepth = 0
  /\ lookupResult = NotCalled

PureIdle ==
  /\ routerProviders = <<>>
  /\ routerNode = None
  /\ routerPanel = NotCalled
  /\ registryFiles = <<>>
  /\ registryProviders = NotCalled
  /\ LookupIdle

Init == InitDialog /\ PureIdle

(***************************************************************************)
(* The background bibliography load and the configuration poll.            *)
(***************************************************************************)
\* bibliographyManager.load(ui, doc).then(...)
LoadComplete ==
  /\ ~ loaded
  /\ \E files \in FileLists :
       /\ bibliographyFiles' = files
       /\ updatedConfiguration' = Some(configuration(files))
  /\ loaded' = TRUE
  /\ UNCHANGED << insertCitationConfiguration, selectedPanelProvider, insertCitationPanelState,
                  citationId, searches, result, phase, returned >>
  /\ lastTypeAhead' = None
  /\ UNCHANGED << messageShown, events, pureVars >>
  /\ UNCHANGED << polling, configurationApplied >>
  /\ lastSearch' = None

\* variant: a refreshed configuration makes the panel load its list again
PollReloadsCitations ==
  /\ polling
  /\ phase = "open"
  /\ insertCitationConfiguration' =
       IF stream # None THEN stream[1] ELSE insertCitationConfiguration
  /\ configurationApplied' = (configurationApplied \/ stream # None)
  /\ polling' = polling
  /\ insertCitationPanelState' =
       IF stream # None
         THEN updateState(insertCitationPanelState, [citations |-> <<>>, selectedIndex |-> -1])
         ELSE insertCitationPanelState
  /\ UNCHANGED << bibliographyFiles, loaded, updatedConfiguration, selectedPanelProvider,
                  citationId, searches, result, phase, returned >>
  /\ lastTypeAhead' = None
  /\ UNCHANGED << messageShown, events, pureVars >>
  /\ lastSearch' = None

\* the setInterval callback; clearInterval() is called without a handle
Poll ==
  /\ polling
  /\ phase = "open"
  /\ insertCitationConfiguration' =
       IF stream # None THEN stream[1] ELSE insertCitationConfiguration
  /\ configurationApplied' = (configurationApplied \/ stream # None)
  /\ polling' = polling
  /\ UNCHANGED << bibliographyFiles, loaded, updatedConfiguration, selectedPanelProvider,
                  insertCitationPanelState, citationId, searches, result, phase, returned >>
  /\ lastTypeAhead' = None
  /\ UNCHANGED << messageShown, events, pureVars >>
  /\ lastSearch' = None

(***************************************************************************)
(* The panel's effect and event handlers.                                  *)
(***************************************************************************)
\* a call of selectedPanelProvider.typeAheadSearch(term, node) and what it returned
TypeAheadCall(by, panel, term, node, value) ==
  Some([by |-> by, panel |-> panel, term |-> term, node |-> node, value |-> value])

\* React.useEffect(..., []): start the poll, load the first list
UseEffect ==
  /\ phase = "rendered"
  /\ \E value \in typeAheadSearch(selectedPanelProvider, "", insertCitationPanelState.selectedNode) :
       /\ insertCitationPanelState' =
            updateState(insertCitationPanelState,
                        [searchTerm |-> "", citations |-> IF value # None THEN value[1] ELSE <<>>])
       /\ lastTypeAhead' = TypeAheadCall("effect", selectedPanelProvider, "",
                                         insertCitationPanelState.selectedNode, value)
  /\ phase' = "open"
  /\ polling' = TRUE
  /\ UNCHANGED configurationApplied
  /\ UNCHANGED << bibliographyFiles, loaded, updatedConfiguration, insertCitationConfiguration,
                  selectedPanelProvider, citationId, searches, result, returned >>
  /\ UNCHANGED << messageShown, events, pureVars >>
  /\ lastSearch' = None

\* variant: a null type-ahead result empties the list (value || [])
onSearchTermChangedClearsOnNull(term) ==
  /\ phase = "open"
  /\ events < MaxEvents /\ events' = events + 1
  /\ \E value \in typeAheadSearch(selectedPanelProvider, term, insertCitationPanelState.selectedNode) :
       /\ insertCitationPanelState' =
            updateState(insertCitationPanelState,
                        [citations |-> IF value # None THEN value[1] ELSE <<>>, searchTerm |-> term])
       /\ lastTypeAhead' = TypeAheadCall("keystroke", selectedPanelProvider, term,
                                         insertCitationPanelState.selectedNode, value)
  /\ UNCHANGED << bibliographyFiles, loaded, updatedConfiguration, insertCitationConfiguration,
                  selectedPanelProvider, citationId, searches, result, phase, returned >>
  /\ UNCHANGED << messageShown, pureVars >>
  /\ UNCHANGED << polling, configurationApplied >>
  /\ lastSearch' = None

onSearchTermChanged(term) ==
  /\ phase = "open"
  /\ events < MaxEvents /\ events' = events + 1
  /\ \E value \in typeAheadSearch(selectedPanelProvider, term, insertCitationPanelState.selectedNode) :
       /\ insertCitationPanelState' =
            IF value # None
              THEN updateState(insertCitationPanelState, [citations |-> value[1], searchTerm |-> term])
              ELSE updateState(insertCitationPanelState, [searchTerm |-> term])
       /\ lastTypeAhead' = TypeAheadCall("keystroke", selectedPanelProvider, term,
                                         insertCitationPanelState.selectedNode, value)
  /\ UNCHANGED << bibliographyFiles, loaded, updatedConfiguration, insertCitationConfiguration,
                  selectedPanelProvider, citationId, searches, result, phase, returned >>
  /\ UNCHANGED << messageShown, pureVars >>
  /\ UNCHANGED << polling, configurationApplied >>
  /\ lastSearch' = None

\* what a step did to an explicit search: dispatched it, or settled it with a value
SearchStep(step, s, value) ==
  Some([step |-> step, overtakenBy |-> s.overtakenBy, value |-> value])

\* the synchronous part of onExecuteSearch; the continuation keeps the state it was created with.
\* searches holds the pending promises in dispatch order; overtakenBy counts the searches
\* dispatched later that have resolved already
onExecuteSearch(searchTerm) ==
  /\ phase = "open"
  /\ events < MaxEvents /\ events' = events + 1
  /\ Len(searches) < MaxInFlight
  /\ insertCitationPanelState' =
       updateState(insertCitationPanelState, [searchTerm |-> searchTerm, status |-> "inProgress"])
  /\ LET dispatched == [ searchTerm |-> searchTerm,
                         provider |-> selectedPanelProvider,
                         node |-> insertCitationPanelState.selectedNode,
                         closure |-> insertCitationPanelState,
                         overtakenBy |-> 0 ]
     IN  /\ searches' = Append(searches, dispatched)
         /\ lastSearch' = SearchStep("dispatched", dispatched, None)
  /\ UNCHANGED << bibliographyFiles, loaded, updatedConfiguration, insertCitationConfiguration,
                  selectedPanelProvider, citationId, result, phase, returned >>
  /\ lastTypeAhead' = None
  /\ UNCHANGED << messageShown, pureVars >>
  /\ UNCHANGED << polling, configurationApplied >>

\* Array without its i-th element
RemoveAt(seq, i) == SubSeq(seq, 1, i - 1) \o SubSeq(seq, i + 1, Len(seq))

\* the pending searches once the i-th has resolved
Overtake(seq, i) ==
  RemoveAt([k \in 1..Len(seq) |->
              IF k < i THEN [seq[k] EXCEPT !.overtakenBy = @ + 1] ELSE seq[k]], i)

\* variant: the resolution of a search is dropped when a search dispatched after it has
\* resolved already
searchResolvedDropsOvertaken(i) ==
  /\ phase = "open"
  /\ i \in 1..Len(searches)
  /\ LET s == searches[i]
     IN  \E value \in search(s.provider, s.searchTerm, s.node) :
           /\ insertCitationPanelState' =
                IF s.overtakenBy > 0 THEN insertCitationPanelState
                ELSE IF value # None
                  THEN updateState(s.closure,
                         [ searchTerm |-> s.searchTerm, citations |-> value[1],
                           status |-> IF Len(value[1]) = 0 THEN "noResults" ELSE "default" ])
                  ELSE updateState(s.closure,
                         [ searchTerm |-> s.searchTerm, citations |-> <<>>, status |-> "noResults" ])
           /\ lastSearch' = SearchStep("resolved", s, value)
  /\ searches' = Overtake(searches, i)
  /\ UNCHANGED << bibliographyFiles, loaded, updatedConfiguration, insertCitationConfiguration,
                  selectedPanelProvider, citationId, result, phase, returned >>
  /\ lastTypeAhead' = None
  /\ UNCHANGED << messageShown, events, pureVars >>
  /\ UNCHANGED << polling, configurationApplied >>

\* variant: a null resolution is ignored, as a null type-ahead result is
searchResolvedIgnoresNull(i) ==
  /\ phase = "open"
  /\ i \in 1..Len(searches)
  /\ LET s == searches[i]
     IN  \E value \in search(s.provider, s.searchTerm, s.node) :
           /\ insertCitationPanelState' =
                IF value # None
                  THEN updateState(s.closure,
                         [ searchTerm |-> s.searchTerm, citations |-> value[1],
                           status |-> IF Len(value[1]) = 0 THEN "noResults" ELSE "default" ])
                  ELSE updateState(s.closure, [ searchTerm |-> s.searchTerm ])
           /\ lastSearch' = SearchStep("resolved", s, value)
  /\ searches' = Overtake(searches, i)
  /\ UNCHANGED << bibliographyFiles, loaded, updatedConfiguration, insertCitationConfiguration,
                  selectedPanelProvider, citationId, result, phase, returned >>
  /\ lastTypeAhead' = None
  /\ UNCHANGED << messageShown, events, pureVars >>
  /\ UNCHANGED << polling, configurationApplied >>

\* the .then continuation of onExecuteSearch
searchResolved(i) ==
  /\ phase = "open"
  /\ i \in 1..Len(searches)
  /\ LET s == searches[i]
     IN  \E value \in search(s.provider, s.searchTerm, s.node) :
           /\ insertCitationPanelState' =
                IF value # None
                  THEN updateState(s.closure,
                         [ searchTerm |-> s.searchTerm, citations |-> value[1],
                           status |-> IF Len(value[1]) = 0 THEN "noResults" ELSE "default" ])
                  ELSE updateState(s.closure,
                         [ searchTerm |-> s.searchTerm, citations |-> <<>>, status |-> "noResults" ])
           /\ lastSearch' = SearchStep("resolved", s, value)
  /\ searches' = Overtake(searches, i)
  /\ UNCHANGED << bibliographyFiles, loaded, updatedConfiguration, insertCitationConfiguration,
                  selectedPanelProvider, citationId, result, phase, returned >>
  /\ lastTypeAhead' = None
  /\ UNCHANGED << messageShown, events, pureVars >>
  /\ UNCHANGED << polling, configurationApplied >>

\* the promise of search() rejects: onExecuteSearch attached no rejection handler
searchRejected(i) ==
  /\ phase = "open"
  /\ i \in 1..Len(searches)
  /\ searches' = RemoveAt(searches, i)
  /\ lastSearch' = SearchStep("rejected", searches[i], None)
  /\ UNCHANGED << bibliographyFiles, loaded, updatedConfiguration, insertCitationConfiguration,
                  selectedPanelProvider, insertCitationPanelState, citationId, result, phase,
                  returned >>
  /\ lastTypeAhead' = None
  /\ UNCHANGED << messageShown, events, pureVars >>
  /\ UNCHANGED << polling, configurationApplied >>

\* the source panel adds one of the citations it displays
onAddCitation(citation) ==
  /\ phase = "open"
  /\ events < MaxEvents /\ events' = events + 1
  /\ includes(displayedCitations(insertCitationPanelState), citation)
  /\ LET newCitations == insertCitationPanelState.citationsToAdd \o << citation >>
     IN  insertCitationPanelState' =
           updateState(insertCitationPanelState,
                       [selectedIndex |-> -1, citationsToAdd |-> newCitations])
  /\ UNCHANGED << bibliographyFiles, loaded, updatedConfiguration, insertCitationConfiguration,
                  selectedPanelProvider, citationId, searches, result, phase, returned >>
  /\ lastTypeAhead' = None
  /\ UNCHANGED << messageShown, pureVars >>
  /\ UNCHANGED << polling, configurationApplied >>
  /\ lastSearch' = None

deleteCitation(id) ==
  LET filteredCitations ==
        SelectSeq(insertCitationPanelState.citationsToAdd, LAMBDA source : citationId[source] # id)
  IN  insertCitationPanelState' =
        updateState(insertCitationPanelState, [citationsToAdd |-> filteredCitations])

\* onRemoveCitation(citation) and deleteTag(tag): both for an entry shown as pending
onRemoveCitation(citation) ==
  /\ phase = "open"
  /\ events < MaxEvents /\ events' = events + 1
  /\ includes(mergedCitationsToAdd(insertCitationPanelState), citation)
  /\ deleteCitation(citationId[citation])
  /\ UNCHANGED << bibliographyFiles, loaded, updatedConfiguration, insertCitationConfiguration,
                  selectedPanelProvider, citationId, searches, result, phase, returned >>
  /\ lastTypeAhead' = None
  /\ UNCHANGED << messageShown, pureVars >>
  /\ UNCHANGED << polling, configurationApplied >>
  /\ lastSearch' = None

\* the tag of an editable entry is renamed: the stored object is changed in place
tagEdited(tag, text) ==
  /\ phase = "open"
  /\ events < MaxEvents /\ events' = events + 1
  /\ includes(mergedCitationsToAdd(insertCitationPanelState), tag)
  /\ ProviderKeyOf[tag] # kLocalBiliographyProviderKey
  /\ LET key == citationId[tag]
         toAdd == insertCitationPanelState.citationsToAdd
         hits == { i \in 1..Len(toAdd) : citationId[toAdd[i]] = key }
         targetSource == IF hits = {} THEN None ELSE Some(toAdd[First(hits)])
     IN  citationId' = IF targetSource # None
                         THEN [citationId EXCEPT ![targetSource[1]] = text]
                         ELSE citationId
  /\ UNCHANGED << bibliographyFiles, loaded, updatedConfiguration, insertCitationConfiguration,
                  selectedPanelProvider, insertCitationPanelState, searches, result, phase,
                  returned >>
  /\ lastTypeAhead' = None
  /\ UNCHANGED << messageShown, pureVars >>
  /\ UNCHANGED << polling, configurationApplied >>
  /\ lastSearch' = None

\* the source panel highlights one of the citations it displays
onSelectedIndexChanged(index) ==
  /\ phase = "open"
  /\ events < MaxEvents /\ events' = events + 1
  /\ index \in 0..(Len(displayedCitations(insertCitationPanelState)) - 1)
  /\ insertCitationPanelState' = updateState(insertCitationPanelState, [selectedIndex |-> index])
  /\ UNCHANGED << bibliographyFiles, loaded, updatedConfiguration, insertCitationConfiguration,
                  selectedPanelProvider, citationId, searches, result, phase, returned >>
  /\ lastTypeAhead' = None
  /\ UNCHANGED << messageShown, pureVars >>
  /\ UNCHANGED << polling, configurationApplied >>
  /\ lastSearch' = None

\* variant: a node selection puts the status back to default
onNodeSelectedResetsStatus(node) ==
  /\ phase = "open"
  /\ events < MaxEvents /\ events' = events + 1
  /\ \E i \in 1..Len(insertCitationConfiguration.providers) :
       node \in nodesOf(treeSourceData(insertCitationConfiguration)[i])
  /\ LET suggestedPanel == panelForNode(insertCitationConfiguration.providers, Some(node))
     IN  /\ selectedPanelProvider' =
              IF suggestedPanel # None /\ suggestedPanel[1] # selectedPanelProvider
                THEN suggestedPanel[1] ELSE selectedPanelProvider
         /\ \E value \in typeAheadSearch(selectedPanelProvider, "", node) :
              /\ insertCitationPanelState' =
                   updateState(insertCitationPanelState,
                               [ searchTerm |-> "",
                                 citations |-> IF value # None THEN value[1] ELSE <<>>,
                                 selectedIndex |-> -1,
                                 selectedNode |-> node,
                                 status |-> "default" ])
              /\ lastTypeAhead' = TypeAheadCall("node", selectedPanelProvider, "", node, value)
  /\ UNCHANGED << bibliographyFiles, loaded, updatedConfiguration, insertCitationConfiguration,
                  citationId, searches, result, phase, returned >>
  /\ UNCHANGED << messageShown, pureVars >>
  /\ UNCHANGED << polling, configurationApplied >>
  /\ lastSearch' = None

\* variant: the active provider is never switched
onNodeSelectedKeepsProvider(node) ==
  /\ phase = "open"
  /\ events < MaxEvents /\ events' = events + 1
  /\ \E i \in 1..Len(insertCitationConfiguration.providers) :
       node \in nodesOf(treeSourceData(insertCitationConfiguration)[i])
  /\ \E value \in typeAheadSearch(selectedPanelProvider, "", node) :
       /\ insertCitationPanelState' =
            updateState(insertCitationPanelState,
                        [ searchTerm |-> "",
                          citations |-> IF value # None THEN value[1] ELSE <<>>,
                          selectedIndex |-> -1,
                          selectedNode |-> node ])
       /\ lastTypeAhead' = TypeAheadCall("node", selectedPanelProvider, "", node, value)
  /\ UNCHANGED << bibliographyFiles, loaded, updatedConfiguration, insertCitationConfiguration,
                  selectedPanelProvider, citationId, searches, result, phase, returned >>
  /\ UNCHANGED << messageShown, pureVars >>
  /\ UNCHANGED << polling, configurationApplied >>
  /\ lastSearch' = None

\* the navigation tree shows treeSourceData; the user clicks one of its nodes
onNodeSelected(node) ==
  /\ phase = "open"
  /\ events < MaxEvents /\ events' = events + 1
  /\ \E i \in 1..Len(insertCitationConfiguration.providers) :
       node \in nodesOf(treeSourceData(insertCitationConfiguration)[i])
  /\ LET suggestedPanel == panelForNode(insertCitationConfiguration.providers, Some(node))
     IN  /\ selectedPanelProvider' =
              IF suggestedPanel # None /\ suggestedPanel[1] # selectedPanelProvider
                THEN suggestedPanel[1] ELSE selectedPanelProvider
         /\ \E value \in typeAheadSearch(selectedPanelProvider, "", node) :
              /\ insertCitationPanelState' =
                   updateState(insertCitationPanelState,
                               [ searchTerm |-> "",
                                 citations |-> IF value # None THEN value[1] ELSE <<>>,
                                 selectedIndex |-> -1,
                                 selectedNode |-> node ])
              /\ lastTypeAhead' = TypeAheadCall("node", selectedPanelProvider, "", node, value)
  /\ UNCHANGED << bibliographyFiles, loaded, updatedConfiguration, insertCitationConfiguration,
                  citationId, searches, result, phase, returned >>
  /\ UNCHANGED << messageShown, pureVars >>
  /\ UNCHANGED << polling, configurationApplied >>
  /\ lastSearch' = None

\* the bibliography picker offers the files of the configuration
onBibliographyFileChanged(biblographyFile) ==
  /\ phase = "open"
  /\ events < MaxEvents /\ events' = events + 1
  /\ includes(insertCitationConfiguration.bibliographyFiles, biblographyFile)
  /\ insertCitationPanelState' =
       updateState(insertCitationPanelState, [existingBibliographyFile |-> Some(biblographyFile)])
  /\ UNCHANGED << bibliographyFiles, loaded, updatedConfiguration, insertCitationConfiguration,
                  selectedPanelProvider, citationId, searches, result, phase, returned >>
  /\ lastTypeAhead' = None
  /\ UNCHANGED << messageShown, pureVars >>
  /\ UNCHANGED << polling, configurationApplied >>
  /\ lastSearch' = None

onCreateBibliographyFileNameChanged(fileName) ==
  /\ phase = "open"
  /\ events < MaxEvents /\ events' = events + 1
  /\ insertCitationPanelState' =
       updateState(insertCitationPanelState,
                   [createBibliographyFile |-> bibliographyFileForPath(fileName)])
  /\ UNCHANGED << bibliographyFiles, loaded, updatedConfiguration, insertCitationConfiguration,
                  selectedPanelProvider, citationId, searches, result, phase, returned >>
  /\ lastTypeAhead' = None
  /\ UNCHANGED << messageShown, pureVars >>
  /\ UNCHANGED << polling, configurationApplied >>
  /\ lastSearch' = None

\* Enter or Insert: the panel's onOk, the dialog's onOk, then confirm() runs the validation
\* and, when it passes, the dialog closes and showInsertCitationDialog returns
onOk ==
  /\ phase = "open"
  /\ events < MaxEvents /\ events' = events + 1
  /\ LET stored == Some([ citations |-> mergedCitationsToAdd(insertCitationPanelState),
                          bibliography |-> resultBibliography(insertCitationPanelState),
                          selectionKey |-> insertCitationPanelState.selectedNode.key ])
     IN  /\ result' = stored
         /\ IF htmlDialogCloses(stored)
              THEN /\ phase' = "confirmed"
                   /\ returned' = dialogReturn(TRUE, stored)
                   /\ UNCHANGED messageShown
              ELSE /\ messageShown' = TRUE
                   /\ UNCHANGED << phase, returned >>
  /\ UNCHANGED << bibliographyFiles, loaded, updatedConfiguration, insertCitationConfiguration,
                  selectedPanelProvider, insertCitationPanelState, citationId, searches >>
  /\ lastTypeAhead' = None
  /\ UNCHANGED pureVars
  /\ UNCHANGED << polling, configurationApplied >>
  /\ lastSearch' = None

\* variant: onCancel leaves the stored result in place
onCancelKeepsResult ==
  /\ phase = "open"
  /\ events < MaxEvents /\ events' = events + 1
  /\ result' = result
  /\ phase' = "cancelled"
  /\ returned' = dialogReturn(FALSE, result')
  /\ UNCHANGED << bibliographyFiles, loaded, updatedConfiguration, insertCitationConfiguration,
                  selectedPanelProvider, insertCitationPanelState, citationId, searches >>
  /\ lastTypeAhead' = None
  /\ UNCHANGED << messageShown, pureVars >>
  /\ UNCHANGED << polling, configurationApplied >>
  /\ lastSearch' = None

\* Escape or Cancel: the dialog's onCancel, then cancel() closes the dialog
onCancel ==
  /\ phase = "open"
  /\ events < MaxEvents /\ events' = events + 1
  /\ result' = None
  /\ phase' = "cancelled"
  /\ returned' = dialogReturn(FALSE, result')
  /\ UNCHANGED << bibliographyFiles, loaded, updatedConfiguration, insertCitationConfiguration,
                  selectedPanelProvider, insertCitationPanelState, citationId, searches >>
  /\ lastTypeAhead' = None
  /\ UNCHANGED << messageShown, pureVars >>
  /\ UNCHANGED << polling, configurationApplied >>
  /\ lastSearch' = None

Next ==
  \/ LoadComplete
  \/ Poll
  \/ UseEffect
  \/ \E term \in SearchTerms : onSearchTermChanged(term)
  \/ \E term \in SearchTerms : onExecuteSearch(term)
  \/ \E i \in 1..MaxInFlight : searchResolved(i)
  \/ \E i \in 1..MaxInFlight : searchRejected(i)
  \/ \E citation \in Refs : onAddCitation(citation)
  \/ \E citation \in Refs : onRemoveCitation(citation)
  \/ \E tag \in Refs, text \in EditTexts : tagEdited(tag, text)
  \/ \E index \in 0..Cardinality(Refs) : onSelectedIndexChanged(index)
  \/ \E node \in nodesOf(AllTree) \cup nodesOf(CrossrefTree) : onNodeSelected(node)
  \/ \E file \in { WritableFile, ReadOnlyFile } : onBibliographyFileChanged(file)
  \/ \E fileName \in CreateFileNames : onCreateBibliographyFileNameChanged(fileName)
  \/ onOk
  \/ onCancel

Spec == Init /\ [][Next]_vars

(***************************************************************************)
(* panelForNode and providersForBibliography applied to arbitrary          *)
(* arguments, the dialog left as rendered.                                 *)
(***************************************************************************)
RouterPanels == { "bibliography", "doi", "crossref", "all" }

\* every list of at most three different providers
RouterProviderLists ==
  { <<>> } \cup { << p >> : p \in RouterPanels }
    \cup { ps \in [1..2 -> RouterPanels] : ps[1] # ps[2] }
    \cup { ps \in [1..3 -> RouterPanels] : Cardinality({ ps[1], ps[2], ps[3] }) = 3 }

\* no node, a node of some tree, or a node no tree holds
RouterNodes ==
  { None } \cup { Some(n) : n \in nodesOf(AllTree) \cup nodesOf(CrossrefTree) \cup { Leaf("zotero") } }

OtherWritableFile == [displayPath |-> "other.bib", writable |-> TRUE]

RegistryFileLists ==
  LET files == { WritableFile, ReadOnlyFile, OtherWritableFile }
  IN  { <<>> } \cup { << f >> : f \in files } \cup { fs \in [1..2 -> files] : fs[1] # fs[2] }

InitPure ==
  /\ InitDialog
  /\ bibliographyFiles = <<>>
  /\ routerProviders \in RouterProviderLists
  /\ routerNode \in RouterNodes
  /\ routerPanel = NotCalled
  /\ registryFiles \in { <<>> }
  /\ registryProviders = NotCalled
  /\ LookupIdle

callPanelForNode ==
  /\ ~ routerPanel.called
  /\ routerPanel' = Called(panelForNode(routerProviders, routerNode))
  /\ UNCHANGED << routerProviders, routerNode, registryFiles, registryProviders >>
  /\ UNCHANGED lookupVars
  /\ UNCHANGED dialogVars

\* the manager reports other files, then providersForBibliography is evaluated
callProvidersForBibliography ==
  /\ ~ registryProviders.called
  /\ \E files \in RegistryFileLists :
       /\ registryFiles' = files
       /\ registryProviders' = Called(providersForBibliography(files))
  /\ UNCHANGED << routerProviders, routerNode, routerPanel >>
  /\ UNCHANGED lookupVars
  /\ UNCHANGED dialogVars

NextPure == callPanelForNode \/ callProvidersForBibliography

SpecPure == InitPure /\ [][NextPure]_vars

(***************************************************************************)
(* nodeForKey run frame by frame on arbitrary node lists and keys, the     *)
(* dialog left as rendered.  A frame returns or calls nodeForKey again;    *)
(* every frame hands its callee's value on, so a return unwinds the stack. *)
(***************************************************************************)
LookupTrees == { BibliographyTree, DoiTree, CrossrefTree }

\* every list of different trees
LookupNodeLists ==
  { <<>> } \cup { << t >> : t \in LookupTrees }
    \cup { ts \in [1..2 -> LookupTrees] : ts[1] # ts[2] }
    \cup { ts \in [1..3 -> LookupTrees] : Cardinality({ ts[1], ts[2], ts[3] }) = 3 }

\* no key, the empty key, the key of a root, of a child, and a key no tree holds
LookupKeys ==
  { None } \cup { Some(k) : k \in { "", "bibliography", "bibliography/library", "doi",
                                     "crossref", "zotero" } }

RangeError == [called |-> TRUE, thrown |-> "RangeError"]

InitLookup ==
  /\ InitDialog
  /\ bibliographyFiles = <<>>
  /\ routerProviders = <<>>
  /\ routerNode = None
  /\ routerPanel = NotCalled
  /\ registryFiles = <<>>
  /\ registryProviders = NotCalled
  /\ lookupNodes \in LookupNodeLists
  /\ lookupKey \in LookupKeys
  /\ lookupDepth = 0
  /\ lookupResult = NotCalled

\* if (!key)
keyMissing(key) == key = None \/ key = Some("")

\* the frame on top reaches the recursive call: the key is there and the first node of the
\* loop has another key
frameRecurses ==
  /\ lookupDepth > 0
  /\ ~ keyMissing(lookupKey)
  /\ Len(lookupNodes) > 0
  /\ lookupNodes[1].key # lookupKey[1]

\* the outermost call nodeForKey(nodes, key)
nodeForKeyCall ==
  /\ lookupDepth = 0
  /\ ~ lookupResult.called
  /\ lookupDepth' = 1
  /\ UNCHANGED << lookupNodes, lookupKey, lookupResult >>
  /\ UNCHANGED << routerProviders, routerNode, routerPanel, registryFiles, registryProviders >>
  /\ UNCHANGED dialogVars

\* the frame on top returns: undefined for a missing key or an empty list, the first node
\* when its key is the one looked for
nodeForKeyReturn ==
  /\ lookupDepth > 0
  /\ ~ frameRecurses
  /\ lookupResult' =
       Called(IF keyMissing(lookupKey) \/ Len(lookupNodes) = 0 THEN None
              ELSE Some(lookupNodes[1]))
  /\ lookupDepth' = 0
  /\ UNCHANGED << lookupNodes, lookupKey >>
  /\ UNCHANGED << routerProviders, routerNode, routerPanel, registryFiles, registryProviders >>
  /\ UNCHANGED dialogVars

\* return nodeForKey(nodes, key): a new frame with the same arguments
nodeForKeyRecurse ==
  /\ frameRecurses
  /\ lookupDepth < MaxStack
  /\ lookupDepth' = lookupDepth + 1
  /\ UNCHANGED << lookupNodes, lookupKey, lookupResult >>
  /\ UNCHANGED << routerProviders, routerNode, routerPanel, registryFiles, registryProviders >>
  /\ UNCHANGED dialogVars

\* the same call with the stack full: the engine throws and the render fails
nodeForKeyStackOverflow ==
  /\ frameRecurses
  /\ lookupDepth = MaxStack
  /\ lookupResult' = RangeError
  /\ lookupDepth' = 0
  /\ UNCHANGED << lookupNodes, lookupKey >>
  /\ UNCHANGED << routerProviders, routerNode, routerPanel, registryFiles, registryProviders >>
  /\ UNCHANGED dialogVars

NextLookup ==
  \/ nodeForKeyCall
  \/ nodeForKeyReturn
  \/ nodeForKeyRecurse
  \/ nodeForKeyStackOverflow

SpecLookup == InitLookup /\ [][NextLookup]_vars

(***************************************************************************)
(* Properties.                                                             *)
(***************************************************************************)
IdsOf(seq) == { citationId[seq[i]] : i \in 1..Len(seq) }
KeysOf(tree) == { n.key : n \in nodesOf(tree) }

\* the positions of the providers whose tree holds the key
Owners(providers, key) == { i \in 1..Len(providers) : key \in KeysOf(treeNode(providers[i])) }

\* C1: the committed pending-add list never holds two entries with the same identifier
C1_NoDuplicateIdentifiers ==
  LET toAdd == insertCitationPanelState.citationsToAdd
  IN  \A i, j \in 1..Len(toAdd) : i # j => citationId[toAdd[i]] # citationId[toAdd[j]]

\* C2: no identifier occurs both in the displayed citations and in the pending-add list
C2_DisplayedDisjointFromPending ==
  IdsOf(displayedCitations(insertCitationPanelState))
    \cap IdsOf(insertCitationPanelState.citationsToAdd) = {}

\* C3: a confirm attempt with an empty merged list is rejected (the dialog stays open and
\* nothing is returned), and every returned result holds at least one citation
C3_EmptyConfirmRejected ==
  /\ (result # None /\ Len(result[1].citations) = 0) => (phase = "open" /\ returned = None)
  /\ returned # None => Len(returned[1].citations) >= 1

C3_Witness ==
  /\ messageShown
  /\ phase = "open"
  /\ result # None /\ Len(result[1].citations) = 0
  /\ returned = None

\* the merged list as C4 describes it: the pending entries, then the highlighted displayed
\* entry unless there is none or its identifier is pending
C4_Merged ==
  LET s == insertCitationPanelState
      shown == SelectSeq(s.citations,
                         LAMBDA c : \A i \in 1..Len(s.citationsToAdd) : s.citationsToAdd[i] # c)
      k == s.selectedIndex + 1
  IN  IF k \in 1..Len(shown) /\ citationId[shown[k]] \notin IdsOf(s.citationsToAdd)
        THEN Append(s.citationsToAdd, shown[k])
        ELSE s.citationsToAdd

C5_CancelReturnsNothing ==
  /\ phase = "cancelled" => (returned = None /\ result = None)
  /\ returned # None => (phase = "confirmed" /\ ~ validation(returned))

C5_Witness ==
  /\ phase = "cancelled"
  /\ messageShown
  /\ returned = None

\* C6: providersForBibliography is [bibliography, DOI, Crossref] when the manager reports a
\* writable file and [bibliography] when it reports none
C6_ProvidersForBibliography ==
  registryProviders.called =>
    registryProviders.value =
      IF \E i \in 1..Len(registryFiles) : registryFiles[i].writable
        THEN << "bibliography", "doi", "crossref" >>
        ELSE << "bibliography" >>

C6_Witness ==
  /\ registryProviders.called
  /\ registryFiles = << ReadOnlyFile >>
  /\ registryProviders.value = << "bibliography" >>

\* C7: panelForNode returns the first provider whose tree holds the node's key, and none
\* for no node or a key no tree holds
C7_PanelForNode ==
  routerPanel.called =>
    LET owners == IF routerNode = None THEN {} ELSE Owners(routerProviders, routerNode[1].key)
    IN  IF owners = {}
          THEN routerPanel.value = None
          ELSE \E i \in owners : /\ \A j \in owners : i <= j
                                 /\ routerPanel.value = Some(routerProviders[i])

C7_Witness ==
  /\ routerPanel.called
  /\ routerNode = Some(DoiTree)
  /\ routerProviders = << "bibliography", "all", "doi" >>
  /\ routerPanel.value = Some("all")

\* C8: right after a node selection the selected node is the clicked one, the search term
\* is empty, the selection index is -1 and the active provider is the owner of the node
C8_NodeSelection ==
  (lastTypeAhead # None /\ lastTypeAhead[1].by = "node") =>
    LET node == lastTypeAhead[1].node
        providers == insertCitationConfiguration.providers
        owners == Owners(providers, node.key)
    IN  /\ insertCitationPanelState.selectedNode = node
        /\ insertCitationPanelState.searchTerm = ""
        /\ insertCitationPanelState.selectedIndex = -1
        /\ owners # {} =>
             \E i \in owners : /\ \A j \in owners : i <= j
                               /\ selectedPanelProvider = providers[i]

C8_Witness ==
  /\ lastTypeAhead # None /\ lastTypeAhead[1].by = "node"
  /\ lastTypeAhead[1].panel = "bibliography"
  /\ insertCitationPanelState.selectedNode = DoiTree
  /\ selectedPanelProvider = "doi"

\* C9: on a node selection the type-ahead query goes to the provider that owns the node
C9_QueryGoesToOwner ==
  (lastTypeAhead # None /\ lastTypeAhead[1].by = "node") =>
    LET providers == insertCitationConfiguration.providers
        owners == Owners(providers, lastTypeAhead[1].node.key)
    IN  owners # {} =>
          \E i \in owners : /\ \A j \in owners : i <= j
                            /\ lastTypeAhead[1].panel = providers[i]

\* C10: a null type-ahead result, from a keystroke or a node selection, leaves the
\* citations and the status as they were; a non-null one replaces the citations
C10_NullTypeAheadChangesNothing ==
  [][ (lastTypeAhead' # None /\ lastTypeAhead'[1].by \in { "keystroke", "node" }) =>
        IF lastTypeAhead'[1].value = None
          THEN /\ insertCitationPanelState'.citations = insertCitationPanelState.citations
               /\ insertCitationPanelState'.status = insertCitationPanelState.status
          ELSE insertCitationPanelState'.citations = lastTypeAhead'[1].value[1]
    ]_vars

\* C10 as the code has it: a null result leaves the citations alone after a keystroke and
\* empties them after a node selection, the status staying as it was either way
C10_NullTypeAheadByTrigger ==
  [][ (lastTypeAhead' # None /\ lastTypeAhead'[1].by \in { "keystroke", "node" }) =>
        /\ insertCitationPanelState'.status = insertCitationPanelState.status
        /\ insertCitationPanelState'.citations =
             IF lastTypeAhead'[1].value # None THEN lastTypeAhead'[1].value[1]
             ELSE IF lastTypeAhead'[1].by = "keystroke" THEN insertCitationPanelState.citations
             ELSE <<>>
    ]_vars

C10_Witness ==
  /\ lastTypeAhead # None
  /\ lastTypeAhead[1].by = "keystroke"
  /\ lastTypeAhead[1].value = None
  /\ insertCitationPanelState.citations # <<>>
  /\ insertCitationPanelState.status = "noResults"

\* C11: a dispatched explicit search sets the status to inProgress; its resolution sets
\* noResults and an empty citation list for a null or empty value, default and the resolved
\* list otherwise, so the status has left inProgress once a search has resolved
C11_SearchSettlesStatus ==
  lastSearch # None =>
    LET step == lastSearch[1]
        state == insertCitationPanelState
    IN  /\ step.step = "dispatched" => state.status = "inProgress"
        /\ step.step = "resolved" =>
             IF step.value = None \/ step.value = Some(<<>>)
               THEN state.status = "noResults" /\ state.citations = <<>>
               ELSE state.status = "default" /\ state.citations = step.value[1]

C11_Witness ==
  /\ lastSearch # None
  /\ lastSearch[1].step = "resolved"
  /\ lastSearch[1].value = None
  /\ insertCitationPanelState.status = "noResults"
  /\ insertCitationPanelState.citations = <<>>

\* C12: stream() returns no update before the load completes, the replacement (computed
\* from the manager's files after the load) on one call after it, and no update again on
\* the calls after that one
C12_StreamDeliversOnce ==
  /\ ~ loaded => stream = None
  /\ (loaded /\ ~ configurationApplied) => stream = Some(configuration(bibliographyFiles))
  /\ configurationApplied => stream = None

\* C12 as the code has it: stream() returns no update before the load completes and the
\* replacement on every call after it, so a poll that was handed a configuration was
\* handed the one computed from the manager's files after the load
C12_StreamAfterLoad ==
  /\ stream = IF loaded THEN Some(configuration(bibliographyFiles)) ELSE None
  /\ configurationApplied =>
       (loaded /\ insertCitationConfiguration = configuration(bibliographyFiles))

C12_Witness ==
  /\ configurationApplied
  /\ stream # None
  /\ insertCitationPanelState.existingBibliographyFile = None
  /\ insertCitationConfiguration.providers = << "bibliography", "doi", "crossref" >>

\* C13: once a poll has handed a configuration to the panel the interval timer is stopped,
\* so that no further poll is made
C13_PollingStops == configurationApplied => ~ polling

\* C14: a confirmed dialog returns the existing bibliography file of the dialog state when
\* one is populated, whatever name was typed for the file to create, and the file to
\* create only when no existing file is populated
C14_ConfirmedBibliography ==
  phase = "confirmed" =>
    /\ returned # None
    /\ returned[1].bibliography =
         IF insertCitationPanelState.existingBibliographyFile # None
           THEN insertCitationPanelState.existingBibliographyFile[1]
           ELSE insertCitationPanelState.createBibliographyFile

C14_Witness ==
  /\ phase = "confirmed"
  /\ insertCitationPanelState.existingBibliographyFile # None
  /\ insertCitationPanelState.createBibliographyFile.displayPath = "notes.bib"
  /\ returned # None
  /\ returned[1].bibliography = insertCitationPanelState.existingBibliographyFile[1]

\* C15: a tag-delete or panel remove for an identifier leaves no entry with that identifier
\* among the citations shown as tags (the ones a confirm issued next returns), and keeps
\* every other pending entry in its previous relative order
C15_DeleteRemovesIdentifier ==
  [][ \A citation \in Refs :
        onRemoveCitation(citation) =>
          LET id == citationId[citation]
              before == insertCitationPanelState.citationsToAdd
          IN  /\ id \notin IdsOf(mergedCitationsToAdd(insertCitationPanelState'))
              /\ insertCitationPanelState'.citationsToAdd =
                   SelectSeq(before, LAMBDA source : citationId[source] # id)
    ]_vars

\* C16: an explicit search whose promise is rejected ends in status noResults
C16_RejectedEndsNoResults ==
  (lastSearch # None /\ lastSearch[1].step = "rejected") =>
    insertCitationPanelState.status = "noResults"

\* C17: with two explicit searches in flight, once both have resolved the citations and
\* the status are those of the search that resolved last, also when that search was
\* dispatched first
C17_LastResolutionWins ==
  (lastSearch # None /\ lastSearch[1].step = "resolved" /\ searches = <<>>) =>
    LET value == lastSearch[1].value
        shown == IF value = None THEN <<>> ELSE value[1]
    IN  /\ insertCitationPanelState.citations = shown
        /\ insertCitationPanelState.status = IF shown = <<>> THEN "noResults" ELSE "default"

C17_Witness ==
  /\ lastSearch # None
  /\ lastSearch[1].step = "resolved"
  /\ lastSearch[1].overtakenBy = 1
  /\ searches = <<>>
  /\ lastSearch[1].value = Some(<< "a2", "b1" >>)
  /\ insertCitationPanelState.citations = << "a2", "b1" >>
  /\ insertCitationPanelState.status = "default"

\* C18: the resolution of an explicit search changes only the search term, the citations
\* and the status; what was added, removed, selected or chosen since its dispatch stays
C18_ResolutionKeepsOtherFields ==
  [][ \A i \in 1..MaxInFlight :
        searchResolved(i) =>
          /\ insertCitationPanelState'.citationsToAdd = insertCitationPanelState.citationsToAdd
          /\ insertCitationPanelState'.selectedNode = insertCitationPanelState.selectedNode
          /\ insertCitationPanelState'.selectedIndex = insertCitationPanelState.selectedIndex
          /\ insertCitationPanelState'.existingBibliographyFile =
               insertCitationPanelState.existingBibliographyFile
          /\ insertCitationPanelState'.createBibliographyFile =
               insertCitationPanelState.createBibliographyFile
    ]_vars

\* C19: a poll that applies the refreshed configuration replaces the configuration alone:
\* the pending-add list, the citations, the selected node, the search term, the selection
\* index and the status are as they were
C19_RefreshKeepsSelection ==
  [][ Poll =>
        /\ insertCitationConfiguration' =
             IF stream # None THEN stream[1] ELSE insertCitationConfiguration
        /\ insertCitationPanelState'.citationsToAdd = insertCitationPanelState.citationsToAdd
        /\ insertCitationPanelState'.citations = insertCitationPanelState.citations
        /\ insertCitationPanelState'.selectedNode = insertCitationPanelState.selectedNode
        /\ insertCitationPanelState'.searchTerm = insertCitationPanelState.searchTerm
        /\ insertCitationPanelState'.selectedIndex = insertCitationPanelState.selectedIndex
        /\ insertCitationPanelState'.status = insertCitationPanelState.status
    ]_vars

\* the DOI node was selected and searched while the configuration still had the DOI
\* provider; the refreshed configuration has the bibliography provider alone
C19_Witness ==
  /\ configurationApplied
  /\ insertCitationConfiguration.providers = << "bibliography" >>
  /\ insertCitationPanelState.selectedNode = DoiTree
  /\ insertCitationPanelState.searchTerm = "q"
  /\ insertCitationPanelState.citations = << "c1" >>
  /\ insertCitationPanelState.citationsToAdd = << "c1" >>

\* C20: the status changes only in a step that dispatches an explicit search or applies
\* the resolution of one
C20_StatusOnlyBySearch ==
  [][ insertCitationPanelState'.status # insertCitationPanelState.status =>
        \/ \E searchTerm \in SearchTerms : onExecuteSearch(searchTerm)
        \/ \E i \in 1..MaxInFlight : searchResolved(i)
    ]_vars

\* a node selection that switched the provider after a search had found nothing
C20_Witness ==
  /\ lastTypeAhead # None
  /\ lastTypeAhead[1].by = "node"
  /\ lastTypeAhead[1].panel = "bibliography"
  /\ selectedPanelProvider = "doi"
  /\ searches = <<>>
  /\ insertCitationPanelState.status = "noResults"

\* C21: the active source provider is always one of the providers of the current
\* configuration, also after a poll has replaced the provider list
C21_ActiveProviderInConfiguration ==
  includes(insertCitationConfiguration.providers, selectedPanelProvider)

\* C22: the selection index is always -1 or a position of the displayed citations
C22_SelectionIndexValid ==
  \/ insertCitationPanelState.selectedIndex = -1
  \/ insertCitationPanelState.selectedIndex
       \in 0..(Len(displayedCitations(insertCitationPanelState)) - 1)

\* C23: the bibliography of a confirmed result is the proposed new file or a writable file
\* of the bibliography-file list of the configuration held at confirm time
C23_ConfirmedBibliographyValid ==
  (phase = "confirmed" /\ returned # None) =>
    LET bibliography == returned[1].bibliography
    IN  \/ bibliography = insertCitationPanelState.createBibliographyFile
        \/ /\ bibliography.writable
           /\ includes(insertCitationConfiguration.bibliographyFiles, bibliography)

\* the nodes of a list of trees that carry the key
Holders(nodes, key) ==
  { n \in UNION { nodesOf(nodes[i]) : i \in 1..Len(nodes) } : n.key = key }

\* C24: for every list of nodes and every key nodeForKey returns, with the node that
\* carries the key when a tree of the list holds one and with none otherwise
C24_NodeForKeyTerminates ==
  lookupResult.called =>
    /\ lookupResult # RangeError
    /\ lookupResult.value =
         IF lookupKey = None \/ Holders(lookupNodes, lookupKey[1]) = {}
           THEN None
           ELSE Some(CHOOSE n \in Holders(lookupNodes, lookupKey[1]) : TRUE)

====
